---- MODULE Spec2Model ----
(***************************************************************************)
(* A model of go-equivalence: IsEquivalent(a, b) walks two Go value graphs *)
(* through reflection and decides whether they are equivalent.            *)
(*                                                                         *)
(* Machine words are sets of bit positions (bit i is set iff i is in the   *)
(* set), so 64-bit patterns, their reinterpretation between signed and     *)
(* unsigned, and the magnitudes of floats and big numbers are exact.       *)
(* The target is a 64-bit build: int and uint are 64 bits wide.            *)
(***************************************************************************)
EXTENDS Integers, Sequences, FiniteSets, TLC

----------------------------------------------------------------------------
(* Bit sets *)

Max(S) == CHOOSE x \in S : \A y \in S : y <= x
Min(S) == CHOOSE x \in S : \A y \in S : x <= y

Pow2(n) == 2 ^ n

\* The bit set of a natural number below 2^31.
FromNat(n) == {i \in 0..30 : (n \div Pow2(i)) % 2 = 1}

\* S + 2^i: the carry runs up to the first clear bit from i on.
AddBit(S, i) ==
    LET j == CHOOSE k \in i..(Max(S \cup {i}) + 1) :
                 k \notin S /\ \A m \in i..(k - 1) : m \in S
    IN (S \ (i..j)) \cup {j}

Word64 == 0..63
\* Two's complement negation of a 64-bit pattern.
Neg64(S) == AddBit(Word64 \ S, 0) \cap Word64
\* The 64-bit pattern of a small integer literal.
IntBits(n) == IF n >= 0 THEN FromNat(n) ELSE Neg64(FromNat(0 - n))
\* A value converted to a signed integer of w bits and back to int64.
NarrowInt(S, w) ==
    LET low == S \cap (0..(w - 1))
    IN IF (w - 1) \in S THEN low \cup (w..63) ELSE low
\* A value converted to an unsigned integer of w bits and back to uint64.
NarrowUint(S, w) == S \cap (0..(w - 1))
\* Magnitude rounded to p significant bits, to nearest, ties to even.
RoundBits(S, p) ==
    IF S = {} THEN {}
    ELSE LET cut == Max(S) - p + 1
             kept == {i \in S : i >= cut}
             rem == {i \in S : i < cut}
             up == /\ (cut - 1) \in rem
                   /\ (rem # {cut - 1} \/ cut \in kept)
         IN IF up THEN AddBit(kept, cut) ELSE kept

----------------------------------------------------------------------------
(* Floating point values: NaN, infinities, or sign and magnitude.  The     *)
(* magnitude is the set of binary positions (negative for fractions).      *)

NaN == [cls |-> "nan", neg |-> FALSE, bits |-> {}]
Inf(neg) == [cls |-> "inf", neg |-> neg, bits |-> {}]
Fin(neg, S) == [cls |-> "fin", neg |-> neg, bits |-> S]

IsNaN(f) == f.cls = "nan"
\* Go's == on floats.
FloatEq(f, g) ==
    /\ f.cls # "nan" /\ g.cls # "nan"
    /\ f.cls = g.cls
    /\ f.bits = g.bits
    /\ (f.neg = g.neg \/ (f.cls = "fin" /\ f.bits = {}))
\* fb < 0
FloatNegative(f) ==
    \/ f.cls = "inf" /\ f.neg
    \/ f.cls = "fin" /\ f.neg /\ f.bits # {}

\* float64(a) for a signed 64-bit a.
Int64ToFloat(S) ==
    IF 63 \in S THEN Fin(TRUE, RoundBits(Neg64(S), 53))
    ELSE Fin(FALSE, RoundBits(S, 53))
\* float64(a) for an unsigned 64-bit a.
Uint64ToFloat(S) == Fin(FALSE, RoundBits(S, 53))

\* The integer part of a magnitude (truncation toward zero).
Trunc(f) == {i \in f.bits : i >= 0}

\* int64(f).  Go leaves the result of an out-of-range conversion to the
\* implementation: amd64 yields the "integer indefinite" pattern, arm64
\* saturates and turns NaN into zero.
FloatToInt64(impl, f) ==
    LET T == Trunc(f)
        inRange == /\ f.cls = "fin"
                   /\ \/ T = {}
                      \/ Max(T) <= 62
                      \/ f.neg /\ T = {63}
    IN IF inRange THEN (IF f.neg THEN Neg64(T) ELSE T)
       ELSE IF impl = "amd64" THEN {63}
       ELSE IF f.cls = "nan" THEN {}
       ELSE IF f.neg THEN {63}
       ELSE 0..62

\* uint64(f), with the same latitude out of range: amd64 converts values
\* below 2^63 through the signed instruction and the others through
\* int64(f - 2^63) with the top bit flipped, arm64 saturates.
FloatToUint64(impl, f) ==
    LET T == Trunc(f)
        inRange == /\ f.cls = "fin"
                   /\ \/ T = {}
                      \/ ~f.neg /\ Max(T) <= 63
    IN IF inRange THEN T
       ELSE IF impl = "amd64"
            THEN (IF f.neg THEN FloatToInt64(impl, f) ELSE {})
       ELSE IF f.cls = "nan" \/ f.neg THEN {}
       ELSE Word64

\* float32(f) widened back to float64 (values within float32's exponent
\* range, or overflowing to infinity).
ToFloat32(f) ==
    IF f.cls # "fin" \/ f.bits = {} THEN f
    ELSE LET r == RoundBits(f.bits, 24)
         IN IF Max(r) > 127 THEN Inf(f.neg) ELSE Fin(f.neg, r)

----------------------------------------------------------------------------
(* Decimal text.  A string is a sequence of one-character strings.         *)

DigitChar == <<"0", "1", "2", "3", "4", "5", "6", "7", "8", "9">>

Reverse(s) == [i \in 1..Len(s) |-> s[Len(s) + 1 - i]]

\* d * m + c on little-endian decimal digits.
RECURSIVE MulAdd(_, _, _)
MulAdd(d, m, c) ==
    IF d = <<>>
    THEN (IF c = 0 THEN <<>> ELSE <<c % 10>> \o MulAdd(<<>>, m, c \div 10))
    ELSE LET x == Head(d) * m + c
         IN <<x % 10>> \o MulAdd(Tail(d), m, x \div 10)

\* The value of a bit set within 0..30.
RECURSIVE NatOf(_)
NatOf(S) == IF S = {} THEN 0 ELSE LET i == Max(S) IN Pow2(i) + NatOf(S \ {i})

\* The decimal digits, least significant first, of a natural number given
\* as a bit set, sixteen bits at a time: n = low + 65536 * (n div 65536).
RECURSIVE DecLE(_)
DecLE(S) ==
    IF S = {} THEN <<>>
    ELSE MulAdd(DecLE({i - 16 : i \in S \ (0..15)}), 65536, NatOf(S \cap (0..15)))

\* The same digits, most significant first; the empty sequence for zero.
DecOfBits(S) == Reverse(DecLE(S))

\* d * 5^n
RECURSIVE Times5(_, _)
Times5(d, n) ==
    IF n = 0 THEN d
    ELSE IF n >= 8 THEN MulAdd(Times5(d, n - 8), 390625, 0)
    ELSE MulAdd(Times5(d, n - 1), 5, 0)

\* m without its trailing zeros.
TrimZeros(m) ==
    LET nz == {i \in 1..Len(m) : m[i] # 0}
    IN IF nz = {} THEN <<>> ELSE SubSeq(m, 1, Max(nz))

\* The exact decimal 0.mant * 10^exp of a binary magnitude: n * 2^-s is
\* n * 5^s / 10^s.
Decimal(S) ==
    IF S = {} THEN [mant |-> <<>>, exp |-> 0]
    ELSE LET s == IF Min(S) < 0 THEN 0 - Min(S) ELSE 0
             n == {i + s : i \in S}
             d == Reverse(Times5(DecLE(n), s))
         IN [mant |-> TrimZeros(d), exp |-> Len(d) - s]

\* decimal.round of math/big: to n digits, half to even.
DecRound(d, n) ==
    IF n < 0 \/ n >= Len(d.mant) THEN d
    ELSE LET m == d.mant
             up == IF m[n + 1] = 5 /\ n + 1 = Len(m)
                   THEN n > 0 /\ m[n] % 2 = 1
                   ELSE m[n + 1] >= 5
             nines == {k \in 1..n : \A j \in k..n : m[j] = 9}
             keep == IF nines = {} THEN n ELSE Min(nines) - 1
         IN IF ~up THEN [d EXCEPT !.mant = TrimZeros(SubSeq(m, 1, n))]
            ELSE IF keep = 0 THEN [mant |-> <<1>>, exp |-> d.exp + 1]
            ELSE [d EXCEPT !.mant =
                      [SubSeq(m, 1, keep) EXCEPT ![keep] = m[keep] + 1]]

DigitAt(m, i) == IF i >= 1 /\ i <= Len(m) THEN DigitChar[m[i] + 1] ELSE "0"
Chars(m) == [i \in 1..Len(m) |-> DigitChar[m[i] + 1]]
Sign(neg) == IF neg THEN <<"-">> ELSE <<>>

\* strconv.FormatInt / FormatUint / big.Int.String in base 10.
FormatNat(neg, S) == IF S = {} THEN <<"0">> ELSE Sign(neg) \o Chars(DecOfBits(S))
FormatInt(S) == IF 63 \in S THEN FormatNat(TRUE, Neg64(S)) ELSE FormatNat(FALSE, S)
FormatUint(S) == FormatNat(FALSE, S)

\* %e: d.ddde+XX with prec digits after the point.
FmtE(neg, d, prec) ==
    LET exp == IF d.mant = <<>> THEN 0 ELSE d.exp - 1
        mag == IF exp < 0 THEN 0 - exp ELSE exp
        ed == Chars(DecOfBits(FromNat(mag)))
    IN Sign(neg) \o <<DigitAt(d.mant, 1)>>
       \o (IF prec > 0
           THEN <<".">> \o [i \in 1..prec |-> DigitAt(d.mant, i + 1)]
           ELSE <<>>)
       \o <<"e", IF exp < 0 THEN "-" ELSE "+">>
       \o (IF mag < 10 THEN <<"0">> ELSE <<>>) \o ed

\* %f: integer part padded with zeros, prec digits after the point.
FmtF(neg, d, prec) ==
    Sign(neg)
    \o (IF d.exp > 0 THEN [i \in 1..d.exp |-> DigitAt(d.mant, i)] ELSE <<"0">>)
    \o (IF prec > 0
        THEN <<".">> \o [i \in 1..prec |-> DigitAt(d.mant, d.exp + i)]
        ELSE <<>>)

\* %g of strconv and math/big: %e when the exponent is below -4 or not
\* below the precision (6 when the digits are the shortest ones).
FmtG(neg, d, prec, shortest) ==
    LET nd == Len(d.mant)
        eprec0 == IF prec > nd /\ nd >= d.exp THEN nd ELSE prec
        eprec == IF shortest THEN 6 ELSE eprec0
        exp == d.exp - 1
    IN IF exp < -4 \/ exp >= eprec
       THEN FmtE(neg, d, (IF prec > nd THEN nd ELSE prec) - 1)
       ELSE LET p == IF prec > d.exp THEN nd ELSE prec
            IN FmtF(neg, d, IF p - d.exp > 0 THEN p - d.exp ELSE 0)

\* S - 2^i, for S >= 2^i: the borrow comes from the first set bit from i on.
SubBit(S, i) ==
    LET j == CHOOSE k \in S : k >= i /\ \A m \in i..(k - 1) : m \notin S
    IN (S \ {j}) \cup (i..(j - 1))

\* x < y on decimals 0.mant * 10^exp with a nonzero leading digit.
DecLess(x, y) ==
    LET n == IF Len(x.mant) > Len(y.mant) THEN Len(x.mant) ELSE Len(y.mant)
        dx(i) == IF i <= Len(x.mant) THEN x.mant[i] ELSE 0
        dy(i) == IF i <= Len(y.mant) THEN y.mant[i] ELSE 0
        diff == {i \in 1..n : dx(i) # dy(i)}
    IN IF x.exp # y.exp THEN x.exp < y.exp
       ELSE diff # {} /\ dx(Min(diff)) < dy(Min(diff))

\* The shortest decimal that reads back as the float64 of magnitude S: the
\* fewest digits whose rounding of the exact expansion stays between the
\* midpoints to the neighbouring floats (the midpoints themselves read back
\* as S when its mantissa is even).
Shortest(S) ==
    LET e == Max(S) - 52
        d == Decimal(S)
        upper == Decimal(AddBit(S, e - 1))
        lower == Decimal(SubBit(S, IF S = {Max(S)} THEN e - 2 ELSE e - 1))
        inclusive == e \notin S
        ok(x) == /\ DecLess(lower, x) \/ (inclusive /\ x = lower)
                 /\ DecLess(x, upper) \/ (inclusive /\ x = upper)
        n == Min({k \in 1..Len(d.mant) : ok(DecRound(d, k))})
    IN DecRound(d, n)

floatToString(f) ==
    IF f.cls = "nan" THEN <<"N", "a", "N">>
    ELSE IF f.cls = "inf" THEN <<IF f.neg THEN "-" ELSE "+", "I", "n", "f">>
    ELSE LET d == IF f.bits = {} THEN Decimal({}) ELSE Shortest(f.bits)
         IN FmtG(f.neg, d, Len(d.mant), TRUE)

bitsToDecimalDigitsTable == <<0, 1, 1, 1, 1, 2, 2, 2, 3, 3>>
bitsToDecimalDigits(bitCount) ==
    (bitCount \div 10) * 3 + bitsToDecimalDigitsTable[(bitCount % 10) + 1]

\* big.Float.Text('g', digits) of a big float of precision prec bits.
BigFloatText(f, prec) ==
    IF f.cls = "inf" THEN <<IF f.neg THEN "-" ELSE "+", "I", "n", "f">>
    ELSE LET digits == bitsToDecimalDigits(prec)
             p == IF digits = 0 THEN 1 ELSE digits
             d == DecRound(Decimal(f.bits), p)
         IN FmtG(f.neg, d, p, FALSE)

----------------------------------------------------------------------------
(* Go values as reflection sees them.  k is the reflect.Kind, t the type.  *)
(* Pointers, slices, maps, channels and functions hold an address of mem   *)
(* ("nil" for none); everything else is held inline.                       *)

IntKinds == {"Int", "Int8", "Int16", "Int32", "Int64"}
UintKinds == {"Uint", "Uint8", "Uint16", "Uint32", "Uint64"}
FloatKinds == {"Float32", "Float64"}

Invalid == [k |-> "Invalid"]
BoolV(x) == [k |-> "Bool", t |-> "bool", b |-> x]
IntV(k, t, S) == [k |-> k, t |-> t, bits |-> S]
FloatV(k, t, f) == [k |-> k, t |-> t, f |-> f]
ComplexV(re, im) == [k |-> "Complex128", t |-> "complex128", re |-> re, im |-> im]
StringV(t, s) == [k |-> "String", t |-> t, s |-> s]
ArrayV(t, elems) == [k |-> "Array", t |-> t, elems |-> elems]
SliceV(t, ptr, n) == [k |-> "Slice", t |-> t, ptr |-> ptr, len |-> n]
MapV(t, kt, ptr) == [k |-> "Map", t |-> t, kt |-> kt, ptr |-> ptr]
StructV(t, fields) == [k |-> "Struct", t |-> t, fields |-> fields]
PtrV(t, ptr) == [k |-> "Ptr", t |-> t, ptr |-> ptr]
Iface(e) == [k |-> "Interface", t |-> "interface {}", e |-> e]
UintptrV(S) == [k |-> "Uintptr", t |-> "uintptr", bits |-> S]
UnsafePointerV(ptr) == [k |-> "UnsafePointer", t |-> "unsafe.Pointer", ptr |-> ptr]
ChanV(t, ptr, n) == [k |-> "Chan", t |-> t, ptr |-> ptr, len |-> n]
FuncV(t, ptr) == [k |-> "Func", t |-> t, ptr |-> ptr]

GoInt(n) == IntV("Int", "int", IntBits(n))
GoInt8(n) == IntV("Int8", "int8", IntBits(n))
GoInt16(n) == IntV("Int16", "int16", IntBits(n))
GoInt32(n) == IntV("Int32", "int32", IntBits(n))
GoInt64(n) == IntV("Int64", "int64", IntBits(n))
GoUint(n) == IntV("Uint", "uint", FromNat(n))
GoUint8(n) == IntV("Uint8", "uint8", FromNat(n))
GoUint16(n) == IntV("Uint16", "uint16", FromNat(n))
GoUint32(n) == IntV("Uint32", "uint32", FromNat(n))
GoUint64(n) == IntV("Uint64", "uint64", FromNat(n))
\* The float n / 2^s.
Frac(n, s) == Fin(n < 0, {i - s : i \in FromNat(IF n < 0 THEN 0 - n ELSE n)})
GoFloat32(n, s) == FloatV("Float32", "float32", Frac(n, s))
GoFloat64(n, s) == FloatV("Float64", "float64", Frac(n, s))
\* A Go string literal, as its bytes.
Text(s) == StringV("string", s)

\* math/big: Int is struct{neg bool; abs nat}, Float is struct{prec uint32;
\* mode, acc, form; neg bool; mant nat; exp int32}, nat is []Word.
Word(S) == IntV("Uint", "big.Word", S)
\* The words of a magnitude, least significant first.
NatWords(S) ==
    IF S = {} THEN <<>>
    ELSE [j \in 1..((Max(S) \div 64) + 1) |->
             Word({i - 64 * (j - 1) : i \in S \cap ((64 * (j - 1))..(64 * j - 1))})]
\* The mantissa words of a magnitude: normalised, top bit set.
MantWords(S) ==
    IF S = {} THEN <<>>
    ELSE LET n == ((Max(S) - Min(S)) \div 64) + 1
         IN NatWords({i - Max(S) + 64 * n - 1 : i \in S})
BigIntV(neg, S, ptr) ==
    StructV("big.Int", <<BoolV(neg), SliceV("big.nat", ptr, Len(NatWords(S)))>>)
BigFloatV(prec, neg, S, ptr) ==
    StructV("big.Float",
            <<IntV("Uint32", "uint32", FromNat(prec)),
              IntV("Uint8", "big.RoundingMode", {}),
              IntV("Int8", "big.Accuracy", {}),
              IntV("Uint8", "big.form", IF S = {} THEN {} ELSE {0}),
              BoolV(neg),
              SliceV("big.nat", ptr, Len(MantWords(S))),
              IntV("Int32", "int32", IF S = {} THEN {} ELSE IntBits(Max(S) + 1))>>)

----------------------------------------------------------------------------
(* The heap of the input graphs: the target of each pointer, the backing   *)
(* array of each slice, the entries of each map.  The values are those of  *)
(* the package's tests and of the cases its rules distinguish.             *)

AnyT == "interface {}"
AnySlice == "[]interface {}"
AnyMap == "map[interface {}]interface {}"
Ta == <<97>>
Tb == <<98>>
Tx == <<120>>
Ttest == <<116, 101, 115, 116>>
Tblah == <<98, 108, 97, 104>>
Million == FromNat(1000000)
Entry(key, val) == [key |-> key, val |-> val]
AnyEntry(key, val) == [key |-> Iface(key), val |-> Iface(val)]
MyStruct(n, s) == StructV("MyStruct", <<GoInt(n), Text(s)>>)
ComplexStruct(map, ptr) ==
    StructV("ComplexStruct",
            <<MapV(AnyMap, AnyT, map), MyStruct(1, Ta), PtrV("*MyStruct", ptr)>>)

\* The heap as the operands were built on it.
Heap ==
      \* pointer targets
    [ x1 |-> GoInt(1),
      y1 |-> GoInt(1),
      y2 |-> GoInt(2),
      self |-> PtrV("T", "self"),
      self2 |-> PtrV("T", "self2"),
      icyc |-> Iface(PtrV("*interface {}", "icyc")),
      px1 |-> PtrV("*int", "x1"),
      ms100a |-> MyStruct(100, Ttest),
      ms100b |-> MyStruct(100, Ttest),
      csA |-> ComplexStruct("miInt", "ms100a"),
      csB |-> ComplexStruct("miInt8", "ms100b"),
      up |-> UnsafePointerV("x1"),
      pms |-> MyStruct(1, Ta),
      ppp |-> SliceV("[]*int", "pp", 2),
      pmsab |-> MapV("map[string]int", "string", "msab"),
      node |-> StructV("Node", <<GoInt(1), PtrV("*Node", "node")>>),
      ch1 |-> <<>>,
      ch2 |-> <<>>,
      ch3 |-> <<>>,
      \* big numbers and their words
      bi0 |-> BigIntV(FALSE, {}, "nil"),
      bi100 |-> BigIntV(FALSE, FromNat(100), "bi100w"),
      bi100w |-> NatWords(FromNat(100)),
      bin70 |-> BigIntV(TRUE, FromNat(70), "bin70w"),
      bin70w |-> NatWords(FromNat(70)),
      biM |-> BigIntV(FALSE, Million, "biMw"),
      biMw |-> NatWords(Million),
      biP64 |-> BigIntV(FALSE, {64}, "biP64w"),
      biP64w |-> NatWords({64}),
      bf0 |-> BigFloatV(0, FALSE, {}, "nil"),
      bf100 |-> BigFloatV(53, FALSE, FromNat(100), "bf100w"),
      bf100w |-> MantWords(FromNat(100)),
      bfn70 |-> BigFloatV(53, TRUE, FromNat(70), "bfn70w"),
      bfn70w |-> MantWords(FromNat(70)),
      bfM |-> BigFloatV(53, FALSE, Million, "bfMw"),
      bfMw |-> MantWords(Million),
      bfH |-> BigFloatV(53, FALSE, {0, -1}, "bfHw"),
      bfHw |-> MantWords({0, -1}),
      \* slice backing arrays
      zerobase |-> <<>>,
      recA |-> <<Iface(SliceV(AnySlice, "recA", 1))>>,
      recB |-> <<Iface(SliceV(AnySlice, "recB", 1))>>,
      b123 |-> <<GoUint8(1), GoUint8(2), GoUint8(3)>>,
      b125 |-> <<GoUint8(1), GoUint8(2), GoUint8(5)>>,
      b97 |-> <<GoUint8(97)>>,
      w5 |-> <<GoUint(5)>>,
      any1 |-> <<Iface(GoInt(1)), Iface(Text(Tblah)), Iface(GoFloat64(3, 1))>>,
      any2 |-> <<Iface(GoInt(2)), Iface(Text(Tblah)), Iface(GoFloat64(3, 1))>>,
      nest |-> <<Iface(SliceV(AnySlice, "nest2", 1))>>,
      nest2 |-> <<Iface(GoInt(1))>>,
      pp |-> <<PtrV("*int", "x1"), PtrV("*int", "x1")>>,
      pq |-> <<PtrV("*int", "y1"), PtrV("*int", "y2")>>,
      ups |-> <<UnsafePointerV("x1")>>,
      i12 |-> <<GoInt(1), GoInt(2)>>,
      anyNil |-> <<Iface(Invalid)>>,
      b123x |-> <<GoUint8(1), GoUint8(2), GoUint8(3)>>,
      twice |-> <<SliceV("[]uint8", "b123", 3), SliceV("[]uint8", "b123", 3)>>,
      apart |-> <<SliceV("[]uint8", "b123", 3), SliceV("[]uint8", "b123x", 3)>>,
      \* map entries
      em1 |-> <<>>,
      em2 |-> <<>>,
      msa1 |-> <<Entry(Text(Ta), GoInt(1))>>,
      msa2 |-> <<Entry(Text(Ta), GoInt(2))>>,
      msab |-> <<Entry(Text(Ta), GoInt(1)), Entry(Text(Tb), GoInt(2))>>,
      msba |-> <<Entry(Text(Tb), GoInt(2)), Entry(Text(Ta), GoInt(1))>>,
      miInt |-> <<AnyEntry(GoInt(1), Text(Ta))>>,
      miInt8 |-> <<AnyEntry(GoInt8(1), Text(Ta))>>,
      miUint16 |-> <<AnyEntry(GoUint16(1), Text(Ta))>>,
      miF64 |-> <<AnyEntry(GoFloat64(1, 0), Text(Ta))>>,
      miF32 |-> <<AnyEntry(GoFloat32(1, 0), Text(Ta))>>,
      miH64 |-> <<AnyEntry(GoFloat64(3, 1), Text(Ta))>>,
      miH32 |-> <<AnyEntry(GoFloat32(3, 1), Text(Ta))>>,
      miThree |-> <<AnyEntry(GoInt(3), Text(Ta))>>,
      miNilVal |-> <<[key |-> Iface(GoInt(1)), val |-> Iface(Invalid)]>>,
      miOther |-> <<AnyEntry(GoInt(2), Text(Tx))>>,
      miNilKey |-> <<[key |-> Iface(Invalid), val |-> Iface(GoInt(1))]>>,
      miTwo |-> <<AnyEntry(GoInt8(1), Text(Tx)), AnyEntry(GoInt16(1), Text(Tx))>>,
      miOne |-> <<AnyEntry(GoInt(1), Text(Tx)), AnyEntry(Text(Ta), Text(Tb))>>,
      miUU |-> <<AnyEntry(GoUint16(1), Text(Ta)), AnyEntry(GoUint8(1), Text(Tb))>>,
      miSU |-> <<AnyEntry(GoInt8(1), Text(Ta)), AnyEntry(GoUint8(1), Text(Tb))>>,
      miOdd |-> <<AnyEntry(IntV("Int64", "int64", {53, 0}), Text(Ta))>>,
      miEven |-> <<AnyEntry(FloatV("Float64", "float64", Fin(FALSE, {53})),
                            Text(Ta))>>,
      mInt |-> <<Entry(GoInt(1), Text(Ta))>>,
      mInt8 |-> <<Entry(GoInt8(1), Text(Ta))>>,
      mNaN |-> <<Entry(FloatV("Float64", "float64", NaN), GoInt(1))>>,
      mrec |-> <<[key |-> Iface(Text(Tx)), val |-> Iface(MapV(AnyMap, AnyT, "mrec"))]>> ]

\* The heap of the running program; the call only reads it.
VARIABLE mem

----------------------------------------------------------------------------
(* reflect.Value: a value and, when it is addressable, its location.       *)

ValueOf(v) == [v |-> v, loc |-> <<>>]
IsValid(r) == r.v.k # "Invalid"
\* What a slice or a map refers to.
Backing(v) == IF v.ptr = "nil" THEN <<>> ELSE mem[v.ptr]

\* v.Elem() of a pointer or an interface; the zero Value for nil.
Elem(r) ==
    IF r.v.k = "Ptr"
    THEN (IF r.v.ptr = "nil" THEN ValueOf(Invalid)
          ELSE [v |-> mem[r.v.ptr], loc |-> <<r.v.ptr>>])
    ELSE ValueOf(r.v.e)

\* The accessors panic on a Value of another kind.
CanLen(r) == r.v.k \in {"Array", "Chan", "Map", "Slice", "String"}
LenOf(r) ==
    CASE r.v.k = "Array" -> Len(r.v.elems)
      [] r.v.k = "String" -> Len(r.v.s)
      [] r.v.k = "Map" -> Len(Backing(r.v))
      [] OTHER -> r.v.len
CanIndex(r) == r.v.k \in {"Array", "Slice", "String"}
Sub(loc, i) == IF loc = <<>> THEN <<>> ELSE Append(loc, i)
\* v.Index(i - 1)
Index(r, i) ==
    CASE r.v.k = "Array" -> [v |-> r.v.elems[i], loc |-> Sub(r.loc, i)]
      [] r.v.k = "Slice" -> [v |-> mem[r.v.ptr][i], loc |-> <<r.v.ptr, i>>]
      [] OTHER -> ValueOf(GoUint8(r.v.s[i]))
CanField(r) == r.v.k = "Struct"
NumField(r) == Len(r.v.fields)
\* v.Field(i - 1)
Field(r, i) == [v |-> r.v.fields[i], loc |-> Sub(r.loc, i)]
\* The machine address of a location: a first element or field lies at the
\* address of its array or struct.
RECURSIVE Address(_)
Address(loc) ==
    IF Len(loc) > 1 /\ loc[Len(loc)] = 1
    THEN Address(SubSeq(loc, 1, Len(loc) - 1))
    ELSE loc

\* The value of a small machine integer.
IntOf(S) == IF 63 \in S THEN 0 - NatOf(Neg64(S)) ELSE NatOf(S)

\* The magnitude held in a nat.
NatBits(sl) ==
    UNION {{i + 64 * (j - 1) : i \in Backing(sl)[j].bits} : j \in 1..sl.len}
IsBigInt(v) == v.k = "Struct" /\ v.t = "big.Int"
IsBigFloat(v) == v.k = "Struct" /\ v.t = "big.Float"
\* big.Int.String()
BigIntString(v) == FormatNat(v.fields[1].b, NatBits(v.fields[2]))
\* The value of a big.Float: 0.mant * 2^exp.
BigFloatOf(v) ==
    LET form == NatOf(v.fields[4].bits)
        n == v.fields[6].len
        exp == IntOf(v.fields[7].bits)
    IN IF form = 2 THEN Inf(v.fields[5].b)
       ELSE IF form = 0 THEN Fin(v.fields[5].b, {})
       ELSE Fin(v.fields[5].b, {i - 64 * n + exp : i \in NatBits(v.fields[6])})
bigFloatToString(v) == BigFloatText(BigFloatOf(v), NatOf(v.fields[1].bits))

----------------------------------------------------------------------------
(* The duplicate finder of go-duplicates: a set of typed pointers.         *)

TypedPointer(r) == <<r.v.t, r.v.ptr>>
\* finder.RegisterPointer(v): whether v's typed pointer was already there.
HasDuplicate(finder, r) == TypedPointer(r) \in finder
\* The finder after the call.
RegisterPointer(finder, r) == finder \cup {TypedPointer(r)}

----------------------------------------------------------------------------
(* Numeric comparison *)

\* fmt's %v walks slices, arrays, maps, structs and interfaces by plain
\* recursion and prints a pointer below the top level as an address.  A
\* slice or map that contains itself is walked without end, and the
\* goroutine's stack runs out: a fatal error that no recover() intercepts.
RECURSIVE FmtOverflows(_, _)
FmtOverflows(v, seen) ==
    CASE v.k = "Interface" -> FmtOverflows(v.e, seen)
      [] v.k = "Array" ->
           \E i \in 1..Len(v.elems) : FmtOverflows(v.elems[i], seen)
      [] v.k = "Struct" ->
           \E i \in 1..Len(v.fields) : FmtOverflows(v.fields[i], seen)
      [] v.k = "Slice" ->
           /\ v.len > 0
           /\ \/ v.ptr \in seen
              \/ \E i \in 1..v.len :
                     FmtOverflows(mem[v.ptr][i], seen \cup {v.ptr})
      [] v.k = "Map" ->
           /\ Backing(v) # <<>>
           /\ \/ v.ptr \in seen
              \/ \E i \in 1..Len(Backing(v)) :
                     \/ FmtOverflows(Backing(v)[i].key, seen \cup {v.ptr})
                     \/ FmtOverflows(Backing(v)[i].val, seen \cup {v.ptr})
      [] OTHER -> FALSE

NotNumeric == <<"N", "O", "T", " ", "N", "U", "M", "E", "R", "I", "C">>
Fatal == <<"fatal">>

\* The decimal text of a numeric value; Fatal when the fallback's %v does
\* not return.
numericToString(r) ==
    CASE r.v.k \in IntKinds -> FormatInt(r.v.bits)
      [] r.v.k \in UintKinds -> FormatUint(r.v.bits)
      [] r.v.k \in FloatKinds -> floatToString(r.v.f)
      [] IsBigInt(r.v) -> BigIntString(r.v)
      [] IsBigFloat(r.v) -> bigFloatToString(r.v)
      [] OTHER -> IF FmtOverflows(r.v, {}) THEN Fatal ELSE NotNumeric

\* "true", "false" or "fatal"
TextEq(s, t) ==
    IF t = Fatal THEN "fatal" ELSE IF s = t THEN "true" ELSE "false"
isEquivalentToBigFloat(a, b) == TextEq(bigFloatToString(a), numericToString(b))
isEquivalentToBigInt(a, b) == TextEq(BigIntString(a), numericToString(b))

\* The bit set of a hexadecimal literal, given as its digits.
HexBits(digits) ==
    UNION {{4 * (Len(digits) - j) + i : i \in FromNat(digits[j])} :
              j \in 1..Len(digits)}
\* 0x1000000000000000
signMask == HexBits(<<1, 0, 0, 0, 0, 0, 0, 0, 0, 0, 0, 0, 0, 0, 0, 0>>)

isEquivalentToInt(impl, a, b) ==
    CASE b.v.k \in IntKinds -> b.v.bits = a
      [] b.v.k \in UintKinds ->
           IF b.v.bits \cap signMask # {} THEN FALSE ELSE a = b.v.bits
      [] b.v.k \in FloatKinds ->
           a = FloatToInt64(impl, b.v.f) /\ FloatEq(Int64ToFloat(a), b.v.f)
      [] IsBigInt(b.v) -> FormatInt(a) = BigIntString(b.v)
      [] IsBigFloat(b.v) -> FormatInt(a) = bigFloatToString(b.v)
      [] OTHER -> FALSE

isEquivalentToUint(impl, a, b) ==
    CASE b.v.k \in IntKinds ->
           IF 63 \in b.v.bits THEN FALSE ELSE a = b.v.bits
      [] b.v.k \in UintKinds -> a = b.v.bits
      [] b.v.k \in FloatKinds ->
           IF FloatNegative(b.v.f) THEN FALSE
           ELSE a = FloatToUint64(impl, b.v.f) /\ FloatEq(Uint64ToFloat(a), b.v.f)
      [] IsBigInt(b.v) -> FormatUint(a) = BigIntString(b.v)
      [] IsBigFloat(b.v) -> FormatUint(a) = bigFloatToString(b.v)
      [] OTHER -> FALSE

isEquivalentToFloat(impl, a, b) ==
    CASE b.v.k \in IntKinds ->
           FloatEq(a, Int64ToFloat(b.v.bits)) /\ FloatToInt64(impl, a) = b.v.bits
      [] b.v.k \in UintKinds ->
           FloatEq(a, Uint64ToFloat(b.v.bits)) /\ FloatToUint64(impl, a) = b.v.bits
      [] b.v.k \in FloatKinds ->
           IF IsNaN(a) /\ IsNaN(b.v.f) THEN TRUE ELSE FloatEq(a, b.v.f)
      [] IsBigInt(b.v) -> floatToString(a) = BigIntString(b.v)
      [] IsBigFloat(b.v) -> floatToString(a) = bigFloatToString(b.v)
      [] OTHER -> FALSE

----------------------------------------------------------------------------
(* Keyed lookup *)

\* The outcome of an accessor that panicked.
Panic == [v |-> [k |-> "Panic"], loc |-> <<>>]
Panicked(r) == r.v.k = "Panic"
NotFound == ValueOf(Invalid)

\* Go's == on two map keys held in interfaces.
KeyEq(s, k) ==
    /\ s.k # "Invalid"
    /\ s.t = k.t
    /\ IF k.k \in FloatKinds THEN FloatEq(s.f, k.f) ELSE s = k
Hashable(v) == v.k \notin {"Slice", "Map", "Func"}

\* aMap.MapIndex(key): panics unless aMap is a map and the key is a value
\* assignable to its key type and hashable; the zero Value when absent.
MapIndex(aMap, key) ==
    IF aMap.v.k # "Map" \/ ~IsValid(key) THEN Panic
    ELSE IF aMap.v.kt # AnyT /\ key.v.t # aMap.v.kt THEN Panic
    ELSE IF ~Hashable(key.v) THEN Panic
    ELSE LET entries == Backing(aMap.v)
             stored(i) == IF entries[i].key.k = "Interface"
                          THEN entries[i].key.e ELSE entries[i].key
             hits == {i \in 1..Len(entries) : KeyEq(stored(i), key.v)}
         IN IF hits = {} THEN NotFound
            ELSE ValueOf(entries[CHOOSE i \in hits : TRUE].val)

\* A probe: a key, and whether the code makes the lookup at all.
Probe(try, key) == [try |-> try, key |-> ValueOf(key)]

\* The probes in the order the code makes them; each returns at once when
\* its lookup yields a valid Value (or panics).  With no hit the result is
\* the zero Value of the first lookup.
FirstHit(aMap, probes) ==
    LET hit(i) == LET r == MapIndex(aMap, probes[i].key)
                  IN Panicked(r) \/ IsValid(r)
        hits == {i \in 1..Len(probes) : probes[i].try /\ hit(i)}
    IN IF hits = {} THEN NotFound
       ELSE MapIndex(aMap, probes[Min(hits)].key)

\* int64, then int, int32, int16 and int8 where the key fits.
IntKeyProbes(aKey) ==
    << Probe(TRUE, IntV("Int64", "int64", aKey)),
       Probe(NarrowInt(aKey, 64) = aKey, IntV("Int", "int", aKey)),
       Probe(NarrowInt(aKey, 32) = aKey, IntV("Int32", "int32", aKey)),
       Probe(NarrowInt(aKey, 16) = aKey, IntV("Int16", "int16", aKey)),
       Probe(NarrowInt(aKey, 8) = aKey, IntV("Int8", "int8", aKey)) >>
getIntKeyedMapValue(aMap, aKey) == FirstHit(aMap, IntKeyProbes(aKey))

\* uint64, then uint, uint32, uint16 and uint8 where the key fits.
UintKeyProbes(aKey) ==
    << Probe(TRUE, IntV("Uint64", "uint64", aKey)),
       Probe(NarrowUint(aKey, 64) = aKey, IntV("Uint", "uint", aKey)),
       Probe(NarrowUint(aKey, 32) = aKey, IntV("Uint32", "uint32", aKey)),
       Probe(NarrowUint(aKey, 16) = aKey, IntV("Uint16", "uint16", aKey)),
       Probe(NarrowUint(aKey, 8) = aKey, IntV("Uint8", "uint8", aKey)) >>
getUintKeyedMapValue(aMap, aKey) == FirstHit(aMap, UintKeyProbes(aKey))

\* float64, then float32 where the key fits.
FloatKeyProbes(aKey) ==
    << Probe(TRUE, FloatV("Float64", "float64", aKey)),
       Probe(FloatEq(ToFloat32(aKey), aKey),
             FloatV("Float32", "float32", ToFloat32(aKey))) >>
getFloatKeyedMapValue(aMap, aKey) == FirstHit(aMap, FloatKeyProbes(aKey))

\* The probes of a group, all skipped unless the code calls its function.
If(cond, probes) ==
    [i \in 1..Len(probes) |-> [probes[i] EXCEPT !.try = @ /\ cond]]

\* The key as found, then by the kind of the key: for a signed key the
\* signed, unsigned (if not negative) and float probes; for an unsigned key
\* the unsigned, signed (if it fits) and float probes; for a float key the
\* signed and unsigned probes of its integer value, if it is one.
KeyProbes(build, aKey) ==
    <<[try |-> TRUE, key |-> aKey]>> \o
    CASE aKey.v.k \in IntKinds ->
           LET asInt == aKey.v.bits
           IN IntKeyProbes(asInt)
              \o If(63 \notin asInt, UintKeyProbes(asInt))
              \o FloatKeyProbes(Int64ToFloat(asInt))
      [] aKey.v.k \in UintKinds ->
           LET asUint == aKey.v.bits
           IN UintKeyProbes(asUint)
              \o If(63 \notin asUint, IntKeyProbes(asUint))
              \o FloatKeyProbes(Uint64ToFloat(asUint))
      [] aKey.v.k \in FloatKinds ->
           LET asFloat == aKey.v.f
               asInt == FloatToInt64(build, asFloat)
               asUint == FloatToUint64(build, asFloat)
           IN If(FloatEq(Int64ToFloat(asInt), asFloat), IntKeyProbes(asInt))
              \o If(FloatEq(Uint64ToFloat(asUint), asFloat), UintKeyProbes(asUint))
      [] OTHER -> <<>>

getMapValue(build, aMap, key) ==
    LET aKey == IF key.v.k = "Interface" THEN Elem(key) ELSE key
    IN FirstHit(aMap, KeyProbes(build, aKey))

----------------------------------------------------------------------------
(* The operands: every comparison category, the values of the package's    *)
(* tests, and the boundary values of its numeric rules.                    *)

MaxDepth == 2

\* An array nested d deep around one integer.
RECURSIVE NestArr(_)
NestArr(d) == IF d = 0 THEN GoInt(7) ELSE ArrayV("[1]T", <<NestArr(d - 1)>>)

AnyMapAt(p) == MapV(AnyMap, AnyT, p)
TwoPtr(t, p, q) == StructV(t, <<PtrV("*int", p), PtrV("*int", q)>>)

Numbers ==
    << GoInt(1), GoInt8(1), GoInt64(1), GoUint(1), GoUint8(1), GoUint64(1),
       GoFloat32(1, 0), GoFloat64(1, 0), GoFloat64(3, 1), GoFloat32(3, 1),
       GoInt(-1), GoInt8(-70), GoInt(100), GoFloat64(1000000, 0),
       IntV("Int64", "int64", {60}), IntV("Uint64", "uint64", {60}),
       IntV("Int64", "int64", 0..62), IntV("Int64", "int64", {63}),
       IntV("Uint64", "uint64", {63}), IntV("Uint64", "uint64", Word64),
       FloatV("Float64", "float64", Fin(FALSE, {63})),
       FloatV("Float64", "float64", NaN),
       PtrV("*big.Int", "bi100"), PtrV("*big.Int", "bin70"),
       PtrV("*big.Int", "biM"), PtrV("*big.Int", "biP64"),
       PtrV("*big.Float", "bf100"), PtrV("*big.Float", "bfM"),
       PtrV("*big.Float", "bfH") >>

Scalars ==
    << Invalid, BoolV(TRUE), BoolV(FALSE), ComplexV(1, 2), ComplexV(1, 3),
       Text(Ta), Text(<<>>), StringV("MyString", Ta), Text(<<1, 2, 3>>),
       UintptrV(FromNat(5)), UnsafePointerV("x1"),
       PtrV("*unsafe.Pointer", "up"),
       ChanV("chan int", "ch1", 0), ChanV("chan int", "ch2", 0),
       ChanV("chan string", "ch3", 0),
       FuncV("func()", "f1"), FuncV("func(int)", "f2") >>

Lists ==
    << ArrayV("[3]uint8", <<GoUint8(1), GoUint8(2), GoUint8(3)>>),
       ArrayV("[0]int", <<>>),
       SliceV("[]uint8", "b123", 3), SliceV("[]uint8", "b125", 3),
       SliceV("[]int", "nil", 0), SliceV("[]int", "zerobase", 0),
       SliceV("[]string", "zerobase", 0),
       SliceV(AnySlice, "any1", 3), SliceV(AnySlice, "any2", 3),
       SliceV(AnySlice, "recA", 1), SliceV(AnySlice, "recB", 1),
       SliceV(AnySlice, "nest", 1),
       SliceV("[]*int", "pp", 2), SliceV("[]*int", "pq", 2),
       SliceV("[]uint8", "b97", 1), SliceV("[]int", "i12", 2),
       SliceV(AnySlice, "anyNil", 1),
       SliceV("[][]uint8", "twice", 2), SliceV("[][]uint8", "apart", 2) >>

Mappings ==
    << MapV("map[string]int", "string", "nil"),
       MapV("map[string]int", "string", "em1"),
       MapV("map[int]string", "int", "em2"),
       MapV("map[string]int", "string", "msa1"),
       MapV("map[string]int", "string", "msa2"),
       MapV("map[string]int", "string", "msab"),
       MapV("map[string]int", "string", "msba"),
       MapV("map[int]string", "int", "mInt"),
       MapV("map[int8]string", "int8", "mInt8"),
       MapV("map[float64]int", "float64", "mNaN"),
       AnyMapAt("miInt"), AnyMapAt("miInt8"), AnyMapAt("miUint16"),
       AnyMapAt("miF64"), AnyMapAt("miF32"), AnyMapAt("miH64"),
       AnyMapAt("miH32"), AnyMapAt("miNilVal"), AnyMapAt("miOther"),
       AnyMapAt("miNilKey"), AnyMapAt("mrec"),
       AnyMapAt("miTwo"), AnyMapAt("miOne"), AnyMapAt("miUU"),
       AnyMapAt("miSU"), AnyMapAt("miOdd"), AnyMapAt("miEven") >>

Records ==
    << MyStruct(1, Ta),
       StructV("OtherStruct", <<GoInt8(1), Text(Ta)>>),
       StructV("OtherStruct", <<GoInt8(2), Text(Ta)>>),
       StructV("Triple", <<GoInt(1), Text(Ta), BoolV(TRUE)>>),
       StructV("Empty", <<>>),
       TwoPtr("TwoPtr", "x1", "x1"), TwoPtr("PtrPair", "y1", "y2") >>

References ==
    << PtrV("*int", "x1"), PtrV("*int", "y2"), PtrV("**int", "px1"),
       PtrV("*int", "nil"), PtrV("T", "self"), PtrV("T", "self2"),
       PtrV("*interface {}", "icyc"), PtrV("*Node", "node"),
       PtrV("*ComplexStruct", "csA"), PtrV("*ComplexStruct", "csB"),
       PtrV("*MyStruct", "pms"), PtrV("*[]*int", "ppp"),
       PtrV("*map[string]int", "pmsab") >>

Roots ==
    Numbers \o Scalars \o Lists \o Mappings \o Records \o References
    \o [d \in 1..MaxDepth |-> NestArr(d)]

\* The builds whose float-to-integer conversions differ out of range.
Impls == {"amd64", "arm64"}

----------------------------------------------------------------------------
(* Calls of IsEquivalent(argA, argB), each a step at a time.               *)

VARIABLES
    impl,            \* the build
    argA, argB,      \* the operands of each call
    goroutine,       \* the goroutine that makes each call
    pc,              \* where each call stands
    a, b,            \* the pair areObjectsEquivalent is looking at
    aHasDuplicate, bHasDuplicate,
    stack,           \* the element loops under way, innermost first
    this,            \* the comparator of each call
    aFinder, bFinder,\* the two finders of each comparator
    isEquivalent,    \* the named result
    recovered        \* whether the deferred function recovered a panic

vars == <<impl, mem, argA, argB, goroutine, pc, a, b, aHasDuplicate,
          bHasDuplicate, stack, this, aFinder, bFinder, isEquivalent,
          recovered>>

\* What no step of a call changes.
inputs == <<impl, mem, argA, argB, goroutine>>

Calls == DOMAIN pc

Put(f, c, x) == [f EXCEPT ![c] = x]

\* The calls of script, each <<a, b, goroutine>>, are about to run.
Calling(script) ==
    /\ impl \in Impls
    /\ mem = Heap
    /\ argA = [c \in DOMAIN script |-> script[c][1]]
    /\ argB = [c \in DOMAIN script |-> script[c][2]]
    /\ goroutine = [c \in DOMAIN script |-> script[c][3]]
    /\ pc = [c \in DOMAIN script |-> "call"]
    /\ a = [c \in DOMAIN script |-> ValueOf(Invalid)]
    /\ b = [c \in DOMAIN script |-> ValueOf(Invalid)]
    /\ aHasDuplicate = [c \in DOMAIN script |-> FALSE]
    /\ bHasDuplicate = [c \in DOMAIN script |-> FALSE]
    /\ stack = [c \in DOMAIN script |-> <<>>]
    /\ this = [c \in DOMAIN script |-> 0]
    /\ aFinder = <<>> /\ bFinder = <<>>
    /\ isEquivalent = [c \in DOMAIN script |-> FALSE]
    /\ recovered = [c \in DOMAIN script |-> FALSE]

\* A call of IsEquivalent on two of the operands is about to run.
Called(operands) ==
    \E i \in 1..Len(operands), j \in 1..Len(operands) :
        Calling(<< <<operands[i], operands[j], 1>> >>)

Init == Called(Roots)

\* The process is alive and the goroutine of call c has returned from the
\* calls it made before.
Scheduled(c) ==
    /\ \A d \in Calls : pc[d] # "fatal"
    /\ \A d \in 1..(c - 1) : goroutine[d] = goroutine[c] => pc[d] = "done"

\* A loop over the elements, fields or entries of a, of which i is next.
Frame(op, x, y, todo) == [op |-> op, a |-> x, b |-> y, i |-> 1, todo |-> todo]

\* areObjectsEquivalent returns res to its caller: false ends every loop
\* above it, true lets the innermost loop go on, a panic unwinds to the
\* deferred function, a fatal error ends the process.
Return(c, res) ==
    CASE res = "false" ->
           /\ pc' = Put(pc, c, "done")
           /\ isEquivalent' = Put(isEquivalent, c, FALSE)
           /\ stack' = Put(stack, c, <<>>)
      [] res = "true" /\ stack[c] = <<>> ->
           /\ pc' = Put(pc, c, "done")
           /\ isEquivalent' = Put(isEquivalent, c, TRUE)
           /\ UNCHANGED stack
      [] res = "true" /\ stack[c] # <<>> ->
           pc' = Put(pc, c, "loop") /\ UNCHANGED <<isEquivalent, stack>>
      [] res = "panic" ->
           pc' = Put(pc, c, "panic") /\ UNCHANGED <<isEquivalent, stack>>
      [] OTHER -> pc' = Put(pc, c, "fatal") /\ UNCHANGED <<isEquivalent, stack>>

\* areObjectsEquivalent(x, y) is called.
Enter(c, x, y) ==
    /\ a' = Put(a, c, x) /\ b' = Put(b, c, y)
    /\ aHasDuplicate' = Put(aHasDuplicate, c, FALSE)
    /\ bHasDuplicate' = Put(bHasDuplicate, c, FALSE)
    /\ pc' = Put(pc, c, "drillA")

\* The comparator a call before had, if there was one.
sharedComparator == IF aFinder = <<>> THEN Len(aFinder) + 1 ELSE Len(aFinder)

\* &comparator{}: a comparator that no call has had.
newComparator == Len(aFinder) + 1

\* _this.Init() on comparator id: its finder is empty.
comparatorInit(finders, id) ==
    [i \in 1..Max({Len(finders), id}) |-> IF i = id THEN {} ELSE finders[i]]

IsEquivalent(c) ==
    /\ Scheduled(c)
    /\ pc[c] = "call"
    /\ IF argA[c] = Invalid /\ argB[c] = Invalid
       THEN /\ pc' = Put(pc, c, "done")
            /\ isEquivalent' = Put(isEquivalent, c, TRUE)
            /\ UNCHANGED <<a, b, aHasDuplicate, bHasDuplicate, this, aFinder,
                           bFinder>>
       ELSE /\ this' = Put(this, c, newComparator)
            /\ aFinder' = comparatorInit(aFinder, newComparator)
            /\ bFinder' = comparatorInit(bFinder, newComparator)
            /\ Enter(c, ValueOf(argA[c]), ValueOf(argB[c]))
            /\ UNCHANGED isEquivalent
    /\ UNCHANGED <<inputs, stack, recovered>>

\* One turn of drillDown's loop: [v, finder, hasDuplicate, done].
drillDown(finder, v) ==
    IF IsValid(v) /\ v.v.k \in {"Ptr", "Interface"}
    THEN IF v.v.k = "Ptr" /\ HasDuplicate(finder, v)
         THEN [v |-> v, finder |-> finder, hasDuplicate |-> TRUE, done |-> TRUE]
         ELSE [v |-> Elem(v),
               finder |-> IF v.v.k = "Ptr" THEN RegisterPointer(finder, v)
                          ELSE finder,
               hasDuplicate |-> FALSE, done |-> FALSE]
    ELSE [v |-> v, finder |-> finder, hasDuplicate |-> FALSE, done |-> TRUE]

DrillDownA(c) ==
    /\ Scheduled(c)
    /\ pc[c] = "drillA"
    /\ LET r == drillDown(aFinder[this[c]], a[c])
       IN /\ a' = Put(a, c, r.v)
          /\ aFinder' = Put(aFinder, this[c], r.finder)
          /\ aHasDuplicate' = Put(aHasDuplicate, c, r.hasDuplicate)
          /\ pc' = Put(pc, c, IF r.done THEN "drillB" ELSE "drillA")
    /\ UNCHANGED <<inputs, b, bHasDuplicate, stack, this, bFinder,
                   isEquivalent, recovered>>

DrillDownB(c) ==
    /\ Scheduled(c)
    /\ pc[c] = "drillB"
    /\ LET r == drillDown(bFinder[this[c]], b[c])
       IN /\ b' = Put(b, c, r.v)
          /\ bFinder' = Put(bFinder, this[c], r.finder)
          /\ bHasDuplicate' = Put(bHasDuplicate, c, r.hasDuplicate)
          /\ pc' = Put(pc, c, IF r.done THEN "compare" ELSE "drillB")
    /\ UNCHANGED <<inputs, a, aHasDuplicate, stack, this, aFinder,
                   isEquivalent, recovered>>

Bool(x) == IF x THEN "true" ELSE "false"

\* The cases of areObjectsEquivalent's switch that compare without
\* recursion: "true", "false", "panic" or "fatal".
compareLeaf(build, x, y) ==
    CASE x.v.k = "Bool" ->
           IF y.v.k = "Bool" THEN Bool(x.v.b = y.v.b) ELSE "panic"
      [] x.v.k \in IntKinds -> Bool(isEquivalentToInt(build, x.v.bits, y))
      [] x.v.k \in UintKinds -> Bool(isEquivalentToUint(build, x.v.bits, y))
      [] x.v.k \in FloatKinds -> Bool(isEquivalentToFloat(build, x.v.f, y))
      [] x.v.k \in {"Complex64", "Complex128"} ->
           IF y.v.k \in {"Complex64", "Complex128"}
           THEN Bool(x.v.re = y.v.re /\ x.v.im = y.v.im) ELSE "panic"
      [] x.v.k = "String" -> Bool(x.v.t = y.v.t /\ x.v.s = y.v.s)
      [] IsBigInt(x.v) -> isEquivalentToBigInt(x.v, y)
      [] IsBigFloat(x.v) -> isEquivalentToBigFloat(x.v, y)
      \* Value.Pointer panics on a uintptr
      [] x.v.k = "Uintptr" -> "panic"
      \* Value.UnsafeAddr panics on a value that is not addressable
      [] x.v.k = "UnsafePointer" ->
           IF x.loc = <<>> \/ y.loc = <<>> THEN "panic"
           ELSE Bool(Address(x.loc) = Address(y.loc))
      [] x.v.k \in {"Chan", "Func"} -> Bool(x.v.t = y.v.t)
      [] OTHER -> "false"

IsContainer(v) ==
    v.k \in {"Array", "Slice", "Map"}
    \/ (v.k = "Struct" /\ ~IsBigInt(v) /\ ~IsBigFloat(v))

\* Both sides are drilled down and neither met a duplicate or a zero Value.
Comparing(c) ==
    /\ Scheduled(c)
    /\ pc[c] = "compare"
    /\ ~(aHasDuplicate[c] \/ bHasDuplicate[c])
    /\ IsValid(a[c]) /\ IsValid(b[c])

ShortCircuit(c) ==
    /\ Scheduled(c)
    /\ pc[c] = "compare"
    /\ aHasDuplicate[c] \/ bHasDuplicate[c]
    /\ Return(c, "true")
    /\ UNCHANGED <<inputs, a, b, aHasDuplicate, bHasDuplicate, this,
                   aFinder, bFinder, recovered>>

ZeroValue(c) ==
    /\ Scheduled(c)
    /\ pc[c] = "compare"
    /\ ~(aHasDuplicate[c] \/ bHasDuplicate[c])
    /\ ~IsValid(a[c]) \/ ~IsValid(b[c])
    /\ Return(c, Bool(~IsValid(a[c]) /\ ~IsValid(b[c])))
    /\ UNCHANGED <<inputs, a, b, aHasDuplicate, bHasDuplicate, this,
                   aFinder, bFinder, recovered>>

CompareLeaf(c) ==
    /\ Comparing(c)
    /\ ~IsContainer(a[c].v)
    /\ Return(c, compareLeaf(impl, a[c], b[c]))
    /\ UNCHANGED <<inputs, a, b, aHasDuplicate, bHasDuplicate, this,
                   aFinder, bFinder, recovered>>

\* The head of a container comparison that also compared the declared
\* types of the two containers.
BeginSameType(c, op, sized, sizeA, sizeB, todo) ==
    IF ~sized THEN Return(c, "panic")
    ELSE IF sizeA # sizeB \/ a[c].v.t # b[c].v.t THEN Return(c, "false")
    ELSE /\ pc' = Put(pc, c, "loop")
         /\ stack' = Put(stack, c, <<Frame(op, a[c], b[c], todo)>> \o stack[c])
         /\ UNCHANGED isEquivalent

\* The head of areArraysOrSlicesEquivalent, areMapsEquivalent and
\* areStructsEquivalent: the sizes are compared, then the loop starts.
Begin(c, op, sized, sizeA, sizeB, todo) ==
    IF ~sized THEN Return(c, "panic")
    ELSE IF sizeA # sizeB THEN Return(c, "false")
    ELSE /\ pc' = Put(pc, c, "loop")
         /\ stack' = Put(stack, c, <<Frame(op, a[c], b[c], todo)>> \o stack[c])
         /\ UNCHANGED isEquivalent

CompareSequence(c) ==
    /\ Comparing(c)
    /\ a[c].v.k \in {"Array", "Slice"}
    /\ IF a[c].v.k = "Slice" /\ HasDuplicate(aFinder[this[c]], a[c])
       THEN Return(c, "true") /\ UNCHANGED aFinder
       ELSE /\ aFinder' = IF a[c].v.k = "Slice"
                          THEN Put(aFinder, this[c],
                                   RegisterPointer(aFinder[this[c]], a[c]))
                          ELSE aFinder
            /\ Begin(c, "seq", CanLen(b[c]), LenOf(a[c]), LenOf(b[c]), {})
    /\ UNCHANGED <<inputs, a, b, aHasDuplicate, bHasDuplicate, this,
                   bFinder, recovered>>

CompareMap(c) ==
    /\ Comparing(c)
    /\ a[c].v.k = "Map"
    /\ IF HasDuplicate(aFinder[this[c]], a[c])
       THEN Return(c, "true") /\ UNCHANGED aFinder
       ELSE /\ aFinder' = Put(aFinder, this[c],
                              RegisterPointer(aFinder[this[c]], a[c]))
            /\ Begin(c, "map", CanLen(b[c]), LenOf(a[c]), LenOf(b[c]),
                     1..Len(Backing(a[c].v)))
    /\ UNCHANGED <<inputs, a, b, aHasDuplicate, bHasDuplicate, this,
                   bFinder, recovered>>

CompareStruct(c) ==
    /\ Comparing(c)
    /\ a[c].v.k = "Struct" /\ IsContainer(a[c].v)
    /\ Begin(c, "struct", CanField(b[c]), NumField(a[c]), NumField(b[c]), {})
    /\ UNCHANGED <<inputs, a, b, aHasDuplicate, bHasDuplicate, this,
                   aFinder, bFinder, recovered>>

\* The loop ran out: its function returns true.
LoopEnd(c) ==
    /\ stack' = Put(stack, c, Tail(stack[c]))
    /\ IF Tail(stack[c]) = <<>>
       THEN pc' = Put(pc, c, "done") /\ isEquivalent' = Put(isEquivalent, c, TRUE)
       ELSE pc' = Put(pc, c, "loop") /\ UNCHANGED isEquivalent
    /\ UNCHANGED <<a, b, aHasDuplicate, bHasDuplicate>>

\* The accessor panicked in the loop body.
LoopPanic(c) ==
    /\ pc' = Put(pc, c, "panic")
    /\ UNCHANGED <<a, b, aHasDuplicate, bHasDuplicate, stack, isEquivalent>>

NextElement(c) ==
    /\ Scheduled(c)
    /\ pc[c] = "loop"
    /\ stack[c][1].op = "seq"
    /\ LET f == stack[c][1]
       IN IF f.i > LenOf(f.a) THEN LoopEnd(c)
          ELSE IF ~CanIndex(f.b) THEN LoopPanic(c)
          ELSE /\ Enter(c, Index(f.a, f.i), Index(f.b, f.i))
               /\ stack' = [stack EXCEPT ![c][1].i = f.i + 1]
               /\ UNCHANGED isEquivalent
    /\ UNCHANGED <<inputs, this, aFinder, bFinder, recovered>>

NextField(c) ==
    /\ Scheduled(c)
    /\ pc[c] = "loop"
    /\ stack[c][1].op = "struct"
    /\ LET f == stack[c][1]
       IN IF f.i > NumField(f.a) THEN LoopEnd(c)
          ELSE /\ Enter(c, Field(f.a, f.i), Field(f.b, f.i))
               /\ stack' = [stack EXCEPT ![c][1].i = f.i + 1]
               /\ UNCHANGED isEquivalent
    /\ UNCHANGED <<inputs, this, aFinder, bFinder, recovered>>

\* The map iterator yields the entries of a in any order.
NextEntry(c) ==
    /\ Scheduled(c)
    /\ pc[c] = "loop"
    /\ stack[c][1].op = "map"
    /\ LET f == stack[c][1]
       IN IF f.todo = {} THEN LoopEnd(c)
          ELSE \E i \in f.todo :
                 LET e == Backing(f.a.v)[i]
                     bv == getMapValue(impl, f.b, ValueOf(e.key))
                 IN IF Panicked(bv) THEN LoopPanic(c)
                    ELSE /\ Enter(c, ValueOf(e.val), bv)
                         /\ stack' = [stack EXCEPT ![c][1].todo = f.todo \ {i}]
                         /\ UNCHANGED isEquivalent
    /\ UNCHANGED <<inputs, this, aFinder, bFinder, recovered>>

\* The deferred function of IsEquivalent.
Recover(c) ==
    /\ Scheduled(c)
    /\ pc[c] = "panic"
    /\ isEquivalent' = Put(isEquivalent, c, FALSE)
    /\ recovered' = Put(recovered, c, TRUE)
    /\ stack' = Put(stack, c, <<>>)
    /\ pc' = Put(pc, c, "done")
    /\ UNCHANGED <<inputs, a, b, aHasDuplicate, bHasDuplicate, this,
                   aFinder, bFinder>>

Next ==
    \/ \E c \in Calls : IsEquivalent(c)
    \/ \E c \in Calls : DrillDownA(c)
    \/ \E c \in Calls : DrillDownB(c)
    \/ \E c \in Calls : ShortCircuit(c)
    \/ \E c \in Calls : ZeroValue(c)
    \/ \E c \in Calls : CompareLeaf(c)
    \/ \E c \in Calls : CompareSequence(c)
    \/ \E c \in Calls : CompareMap(c)
    \/ \E c \in Calls : CompareStruct(c)
    \/ \E c \in Calls : NextElement(c)
    \/ \E c \in Calls : NextField(c)
    \/ \E c \in Calls : NextEntry(c)
    \/ \E c \in Calls : Recover(c)

Spec == Init /\ [][Next]_vars

\* The operands with a cycle through a pointer, a slice, a map or an
\* interface, and operands without one to set against them.
Cyclic ==
    << PtrV("T", "self"), PtrV("T", "self2"), PtrV("*interface {}", "icyc"),
       PtrV("*Node", "node"), SliceV(AnySlice, "recA", 1),
       SliceV(AnySlice, "recB", 1), AnyMapAt("mrec"),
       Invalid, BoolV(TRUE), GoInt(1), PtrV("*big.Int", "bi100"),
       MyStruct(1, Ta), SliceV(AnySlice, "nest", 1), SliceV("[]*int", "pp", 2),
       MapV("map[string]int", "string", "msab"),
       MapV("map[string]int", "string", "msba") >>

\* The calls on those operands run on: no step that can be taken is put
\* off for ever.
FairSpec == Called(Cyclic) /\ [][Next]_vars /\ WF_vars(Next)

Returned(c) == pc[c] = "done"

\* A caller compares x with y, then y with x, then x with itself.
InTurn(operands) ==
    \E i \in 1..Len(operands), j \in 1..Len(operands) :
        Calling(<< <<operands[i], operands[j], 1>>,
                   <<operands[j], operands[i], 1>>,
                   <<operands[i], operands[i], 1>> >>)

TurnSpec == InTurn(Roots) /\ [][Next]_vars

\* Two goroutines compare x with y at the same time, and one of them goes
\* on to compare y with x.
AtOnce(operands) ==
    \E i \in 1..Len(operands), j \in 1..Len(operands) :
        Calling(<< <<operands[i], operands[j], 1>>,
                   <<operands[i], operands[j], 2>>,
                   <<operands[j], operands[i], 2>> >>)

ConcurrentSpec == AtOnce(Cyclic) /\ [][Next]_vars

----------------------------------------------------------------------------
(* What the operands denote, for stating the properties of a call.         *)

IsNative(v) == v.k \in IntKinds \cup UintKinds \cup FloatKinds
IsBig(v) == v.k = "Ptr" /\ v.t \in {"*big.Int", "*big.Float"}
\* The number a numeric operand denotes, as a sign and a magnitude.
NumberOf(v) ==
    CASE v.k \in IntKinds ->
           IF 63 \in v.bits THEN Fin(TRUE, Neg64(v.bits)) ELSE Fin(FALSE, v.bits)
      [] v.k \in UintKinds -> Fin(FALSE, v.bits)
      [] v.k \in FloatKinds -> v.f
      [] v.t = "*big.Int" ->
           Fin(mem[v.ptr].fields[1].b, NatBits(mem[v.ptr].fields[2]))
      [] OTHER -> BigFloatOf(mem[v.ptr])
SameNumber(v, w) == FloatEq(NumberOf(v), NumberOf(w))

\* What a value stored in an interface or behind one pointer holds.
Unwrap(v) == IF v.k = "Interface" THEN v.e ELSE v
Target(v) ==
    IF v.k = "Ptr" THEN (IF v.ptr = "nil" THEN Invalid ELSE mem[v.ptr]) ELSE v
\* Whether a call of its own finds two values without elements equivalent.
LeafEquivalent(v, w) ==
    LET x == Target(Unwrap(v))
        y == Target(Unwrap(w))
    IN IF x.k = "Invalid" \/ y.k = "Invalid" THEN x.k = y.k
       ELSE compareLeaf(impl, ValueOf(x), ValueOf(y)) = "true"

IsMapping(v) == v.k = "Map"
Entries(v) == Backing(v)
NumericKeyed(v) ==
    \A i \in 1..Len(Entries(v)) : IsNative(Unwrap(Entries(v)[i].key))
\* A one-to-one pairing of the entries: same number as key, equivalent values.
Paired(v, w) ==
    LET n == Len(Entries(v))
    IN /\ Len(Entries(w)) = n
       /\ \E f \in [1..n -> 1..n] :
             /\ \A i, j \in 1..n : f[i] = f[j] => i = j
             /\ \A i \in 1..n :
                   /\ SameNumber(Unwrap(Entries(v)[i].key),
                                 Unwrap(Entries(w)[f[i]].key))
                   /\ LeafEquivalent(Entries(v)[i].val, Entries(w)[f[i]].val)
\* Some key of v that the keyed lookup does not find in w.
MissingKey(v, w) ==
    \E i \in 1..Len(Entries(v)) :
        getMapValue(impl, ValueOf(w), ValueOf(Entries(v)[i].key)) = NotFound

IsSequence(v) == v.k \in {"Array", "Slice"}
IsEmpty(v) == LenOf(ValueOf(v)) = 0
IsRecord(v) == v.k = "Struct"
FieldsEquivalent(v, w) ==
    /\ Len(v.fields) = Len(w.fields)
    /\ \A i \in 1..Len(v.fields) : LeafEquivalent(v.fields[i], w.fields[i])

----------------------------------------------------------------------------
(* The properties claimed of IsEquivalent.                                  *)

\* C1 (reflexivity): a call IsEquivalent(v, v) returns true, whatever the
\* category of v.
C1_Reflexive ==
    \A c \in Calls :
        (Returned(c) /\ argA[c] = argB[c]) => isEquivalent[c]

\* IsEquivalent(uintptr(5), uintptr(5)) panicked in Value.Pointer and
\* returned false.
C1_UintptrUnequal ==
    \E c \in Calls :
        /\ Returned(c) /\ recovered[c] /\ ~isEquivalent[c]
        /\ argA[c] = UintptrV(FromNat(5)) /\ argB[c] = UintptrV(FromNat(5))

\* C2 (termination): every call of IsEquivalent eventually returns, also on
\* operands with cycles on either side.
C2_Terminates == <>(\A c \in Calls : Returned(c))

\* A big.Int against a slice that holds itself: the fallback text of the
\* slice is never finished and the stack runs out.
C2_StackExhausted ==
    \E c \in Calls :
        /\ pc[c] = "fatal"
        /\ argA[c] = PtrV("*big.Int", "bi100")
        /\ argB[c] = SliceV(AnySlice, "recA", 1)

\* C3 (failure containment): no fault ends the call other than by a return,
\* and a call in which a step faulted returns false.
C3_Contained ==
    \A c \in Calls :
        pc[c] # "fatal" /\ (Returned(c) /\ recovered[c] => ~isEquivalent[c])

\* A big.Int against a map that holds itself: the call ended without a
\* return and without the deferred function having run.
C3_FaultEscaped ==
    \E c \in Calls :
        /\ pc[c] = "fatal" /\ ~recovered[c]
        /\ IsBig(argA[c]) /\ argB[c] = AnyMapAt("mrec")

\* C4 (cross-kind completeness): two native numeric operands that denote the
\* same number are equivalent, in either order.
C4_CrossKind ==
    \A c \in Calls :
        (/\ Returned(c) /\ IsNative(argA[c]) /\ IsNative(argB[c])
         /\ SameNumber(argA[c], argB[c]))
        => isEquivalent[c]

\* IsEquivalent(int64(1<<60), uint64(1<<60)) returned false.
C4_Bit60Rejected ==
    \E c \in Calls :
        /\ Returned(c) /\ ~isEquivalent[c] /\ ~recovered[c]
        /\ argA[c] = IntV("Int64", "int64", {60})
        /\ argB[c] = IntV("Uint64", "uint64", {60})

\* C5 (lossy-conversion rejection): two native numeric operands that denote
\* different numbers are not equivalent, in either order.
C5_Sound ==
    \A c \in Calls :
        (/\ Returned(c) /\ IsNative(argA[c]) /\ IsNative(argB[c])
         /\ ~IsNaN(NumberOf(argA[c])) /\ ~IsNaN(NumberOf(argB[c]))
         /\ ~SameNumber(argA[c], argB[c]))
        => ~isEquivalent[c]

\* IsEquivalent(int64(math.MinInt64), uint64(1<<63)) returned true.
C5_MinInt64Accepted ==
    \E c \in Calls :
        /\ Returned(c) /\ isEquivalent[c]
        /\ argA[c] = IntV("Int64", "int64", {63})
        /\ argB[c] = IntV("Uint64", "uint64", {63})

\* C6 (arbitrary-precision bridging): a big.Int or big.Float is equivalent to
\* a native or arbitrary-precision number exactly when the two have the same
\* magnitude, in either order.
C6_Bridging ==
    \A c \in Calls :
        (/\ Returned(c)
         /\ IsBig(argA[c]) \/ IsBig(argB[c])
         /\ IsBig(argA[c]) \/ IsNative(argA[c])
         /\ IsBig(argB[c]) \/ IsNative(argB[c]))
        => (isEquivalent[c] <=> SameNumber(argA[c], argB[c]))

\* IsEquivalent(big.NewInt(1000000), float64(1000000)) returned false:
\* "1000000" against "1e+06".
C6_MillionUnequal ==
    \E c \in Calls :
        /\ Returned(c) /\ ~isEquivalent[c] /\ ~recovered[c]
        /\ argA[c] = PtrV("*big.Int", "biM") /\ argB[c] = GoFloat64(1000000, 0)

\* C7 (key-kind independence): two mappings of the same size whose keys pair
\* up one to one as the same numbers, of whatever native kinds, with
\* equivalent values, are equivalent.
C7_KeyKinds ==
    \A c \in Calls :
        (/\ Returned(c) /\ IsMapping(argA[c]) /\ IsMapping(argB[c])
         /\ NumericKeyed(argA[c]) /\ NumericKeyed(argB[c])
         /\ Paired(argA[c], argB[c]))
        => isEquivalent[c]

\* {float64(1): "a"} against {float32(1): "a"} returned false.
C7_FloatKeyMissed ==
    \E c \in Calls :
        /\ Returned(c) /\ ~isEquivalent[c] /\ ~recovered[c]
        /\ argA[c] = AnyMapAt("miF64") /\ argB[c] = AnyMapAt("miF32")

\* C8 (missing key): two mappings of equal size are not equivalent when the
\* keyed lookup finds some key of a not in b, whatever a stores under it.
C8_MissingKey ==
    \A c \in Calls :
        (/\ Returned(c) /\ IsMapping(argA[c]) /\ IsMapping(argB[c])
         /\ Len(Entries(argA[c])) = Len(Entries(argB[c]))
         /\ MissingKey(argA[c], argB[c]))
        => ~isEquivalent[c]

\* {1: nil} against {2: "x"} returned true.
C8_NilValueAccepted ==
    \E c \in Calls :
        /\ Returned(c) /\ isEquivalent[c]
        /\ argA[c] = AnyMapAt("miNilVal") /\ argB[c] = AnyMapAt("miOther")

\* C9 (empty containers): two empty sequences are equivalent and two empty
\* mappings are equivalent, whatever their declared types, nil or allocated,
\* in either order.
C9_EmptyContainers ==
    \A c \in Calls :
        (/\ Returned(c)
         /\ \/ IsSequence(argA[c]) /\ IsSequence(argB[c])
            \/ IsMapping(argA[c]) /\ IsMapping(argB[c])
         /\ IsEmpty(argA[c]) /\ IsEmpty(argB[c]))
        => isEquivalent[c]

\* A nil []int slice was compared with an allocated empty []string slice.
C9_NilAgainstAllocated ==
    \E c \in Calls :
        /\ Returned(c) /\ isEquivalent[c] /\ ~recovered[c]
        /\ argA[c] = SliceV("[]int", "nil", 0)
        /\ argB[c] = SliceV("[]string", "zerobase", 0)

\* C10 (field positions): two records of different declared types are
\* equivalent exactly when they have as many fields and the fields at each
\* position are equivalent.
C10_FieldPositions ==
    \A c \in Calls :
        (/\ Returned(c) /\ IsRecord(argA[c]) /\ IsRecord(argB[c])
         /\ argA[c].t # argB[c].t)
        => (isEquivalent[c] <=> FieldsEquivalent(argA[c], argB[c]))

\* A record {&x, &x} against a record {&y1, &y2} of another type, where
\* x = y1 = 1 and y2 = 2, returned true.
C10_SharedPointerAccepted ==
    \E c \in Calls :
        /\ Returned(c) /\ isEquivalent[c]
        /\ argA[c] = TwoPtr("TwoPtr", "x1", "x1")
        /\ argB[c] = TwoPtr("PtrPair", "y1", "y2")

\* Whether p points to a variable that holds v.
PointsTo(p, v) == p.k = "Ptr" /\ p.ptr # "nil" /\ mem[p.ptr] = v
\* What the walk goes on to from v, and the heap cell it goes through.
Children(v) ==
    CASE v.k = "Interface" -> <<v.e>>
      [] v.k = "Array" -> v.elems
      [] v.k = "Struct" -> v.fields
      [] v.k = "Ptr" -> IF v.ptr = "nil" THEN <<>> ELSE <<mem[v.ptr]>>
      [] v.k = "Slice" -> Backing(v)
      [] v.k = "Map" -> [i \in 1..Len(Backing(v)) |-> Backing(v)[i].val]
      [] OTHER -> <<>>
Cell(v) ==
    IF v.k \in {"Ptr", "Slice", "Map"} /\ v.ptr # "nil" THEN {v.ptr} ELSE {}
\* Whether some walk from v, come through the cells of path, meets one of
\* them again.
RECURSIVE HasCycle(_, _)
HasCycle(v, path) ==
    \/ Cell(v) \cap path # {}
    \/ \E i \in 1..Len(Children(v)) :
           HasCycle(Children(v)[i], path \cup Cell(v))
Elements(v) == IF v.k = "Array" THEN v.elems ELSE Backing(v)
\* A sequence of pointers to values without elements.
OfPointers(v) ==
    /\ IsSequence(v) /\ Elements(v) # <<>>
    /\ \A i \in 1..Len(Elements(v)) :
           Elements(v)[i].k = "Ptr" /\ ~IsContainer(Target(Elements(v)[i]))
ElementsEquivalent(v, w) ==
    /\ Len(Elements(v)) = Len(Elements(w))
    /\ \A i \in 1..Len(Elements(v)) :
           LeafEquivalent(Elements(v)[i], Elements(w)[i])

\* C11 (indirection transparency): for a value v without a cycle the calls
\* IsEquivalent(v, &v), IsEquivalent(&v, v) and IsEquivalent(v, v) return the
\* same result.
C11_SameThroughPointer ==
    \A c, d \in Calls :
        (/\ Returned(c) /\ Returned(d)
         /\ ~HasCycle(argA[c], {})
         /\ PointsTo(argB[c], argA[c])
         /\ \/ argA[d] = argB[c] /\ argB[d] = argA[c]
            \/ argA[d] = argA[c] /\ argB[d] = argA[c])
        => isEquivalent[d] = isEquivalent[c]

\* C11, all of it: the three calls agree, and a sequence of pointers is
\* equivalent to a sequence exactly when its elements, the pointers followed,
\* are equivalent one by one.
C11_Transparent ==
    /\ C11_SameThroughPointer
    /\ \A c \in Calls :
           (Returned(c) /\ OfPointers(argA[c]) /\ IsSequence(argB[c]))
           => (isEquivalent[c] <=> ElementsEquivalent(argA[c], argB[c]))

\* IsEquivalent([]*int{&x, &x}, []*int{&y1, &y2}) with x = y1 = 1 and
\* y2 = 2 returned true.
C11_PointersNotFollowed ==
    \E c \in Calls :
        /\ Returned(c) /\ isEquivalent[c]
        /\ argA[c] = SliceV("[]*int", "pp", 2)
        /\ argB[c] = SliceV("[]*int", "pq", 2)

\* Call c stands before a pair of which one side is an identity that its
\* finder holds already.
MeetsRegistered(c) ==
    /\ pc[c] = "compare"
    /\ \/ aHasDuplicate[c] \/ bHasDuplicate[c]
       \/ /\ a[c].v.k \in {"Slice", "Map"}
          /\ HasDuplicate(aFinder[this[c]], a[c])
       \/ /\ b[c].v.k \in {"Slice", "Map"}
          /\ HasDuplicate(bFinder[this[c]], b[c])
\* The step of call c is a return of true from areObjectsEquivalent, no
\* loop begun.
ReturnsTrue(c) ==
    /\ stack'[c] = stack[c]
    /\ IF stack[c] = <<>> THEN pc'[c] = "done" /\ isEquivalent'[c]
       ELSE pc'[c] = "loop"

\* C12 (cycle short-circuit): when a pair has on either side an identity
\* that the side's finder holds already, the comparison of the pair returns
\* true, whatever the other side is and with no recursion; and two slices
\* that each hold themselves as their one element are equivalent.
C12_ShortCircuit ==
    /\ [][\A c \in Calls :
            (MeetsRegistered(c) /\ pc'[c] # pc[c]) => ReturnsTrue(c)]_vars
    /\ [](\A c \in Calls :
            (/\ Returned(c)
             /\ argA[c] \in {SliceV(AnySlice, "recA", 1),
                             SliceV(AnySlice, "recB", 1)}
             /\ argB[c] \in {SliceV(AnySlice, "recA", 1),
                             SliceV(AnySlice, "recB", 1)})
            => isEquivalent[c])

\* a := make([]interface{}, 1); a[0] = a; IsEquivalent(a, []interface{}{nil})
\* returned false: a was met again, against a nil element.
C12_NilAgainstCycle ==
    \E c \in Calls :
        /\ Returned(c) /\ ~isEquivalent[c] /\ ~recovered[c]
        /\ argA[c] = SliceV(AnySlice, "recA", 1)
        /\ argB[c] = SliceV(AnySlice, "anyNil", 1)

Range(f) == {f[i] : i \in DOMAIN f}
\* The values a walk from those of front comes to.
RECURSIVE Reachable(_, _)
Reachable(front, seen) ==
    IF front \subseteq seen THEN seen
    ELSE Reachable(UNION {Range(Children(v)) : v \in front \ seen},
                   seen \cup front)
\* The identities in the graph of v: its pointers, slices and maps.
Identities(v) ==
    {<<w.t, w.ptr>> : w \in {u \in Reachable({v}, {}) :
                                 u.k \in {"Ptr", "Slice", "Map"}}}
\* The step of call c goes through the pointer on a side, or begins the
\* loop over the elements of the pair.
ThroughPointer(c, at, side) ==
    pc[c] = at /\ side[c].v.k = "Ptr" /\ side'[c] # side[c]
BeginsLoop(c) ==
    pc[c] = "compare" /\ Len(stack'[c]) > Len(stack[c])
Walked(r) == r.v.k \in {"Slice", "Map"}

\* C13 (guard coverage per side): on side a and on side b alike, a pointer
\* gone through and a slice or map whose elements the walk begins on is in
\* that side's finder from then on and was not in it before, so its
\* elements are walked at most once; and each finder holds identities of
\* its own operand only.
C13_GuardCoverage ==
    /\ [][\A c \in Calls :
            /\ ThroughPointer(c, "drillA", a)
               => /\ ~HasDuplicate(aFinder[this[c]], a[c])
                  /\ HasDuplicate(aFinder'[this[c]], a[c])
            /\ ThroughPointer(c, "drillB", b)
               => /\ ~HasDuplicate(bFinder[this[c]], b[c])
                  /\ HasDuplicate(bFinder'[this[c]], b[c])
            /\ (BeginsLoop(c) /\ Walked(a[c]))
               => /\ ~HasDuplicate(aFinder[this[c]], a[c])
                  /\ HasDuplicate(aFinder'[this[c]], a[c])
            /\ (BeginsLoop(c) /\ Walked(b[c]))
               => /\ ~HasDuplicate(bFinder[this[c]], b[c])
                  /\ HasDuplicate(bFinder'[this[c]], b[c])]_vars
    /\ [](\A c \in Calls :
            this[c] # 0 =>
                /\ aFinder[this[c]] \subseteq Identities(argA[c])
                /\ bFinder[this[c]] \subseteq Identities(argB[c]))

\* s := []byte{1, 2, 3}; IsEquivalent([][]byte{{1, 2, 3}, {1, 2, 3}},
\* [][]byte{s, s}) walked s twice on side b and left bFinder empty.
C13_WalkedTwiceUnregistered ==
    \E c \in Calls :
        /\ Returned(c) /\ isEquivalent[c]
        /\ argA[c] = SliceV("[][]uint8", "apart", 2)
        /\ argB[c] = SliceV("[][]uint8", "twice", 2)
        /\ bFinder[this[c]] = {}
        /\ aFinder[this[c]] # {}

\* The kinds in the order the keyed lookup is said to try them.
ProbeOrder ==
    << "Int64", "Int", "Int32", "Int16", "Int8",
       "Uint64", "Uint", "Uint32", "Uint16", "Uint8", "Float64", "Float32" >>
Place(kind) == CHOOSE i \in 1..Len(ProbeOrder) : ProbeOrder[i] = kind
\* What a lookup in that order yields for key k in the map m: the value
\* under k itself, or else under the first key in the order that denotes
\* the number of k.
InOrder(m, k) ==
    LET stored(i) == Unwrap(Entries(m)[i].key)
        exact == {i \in 1..Len(Entries(m)) : KeyEq(stored(i), k)}
        same == {i \in 1..Len(Entries(m)) :
                    IsNative(stored(i)) /\ SameNumber(stored(i), k)}
        first == CHOOSE i \in same :
                     \A j \in same : Place(stored(i).k) <= Place(stored(j).k)
    IN IF exact # {} THEN ValueOf(Entries(m)[CHOOSE i \in exact : TRUE].val)
       ELSE IF same # {} THEN ValueOf(Entries(m)[first].val)
       ELSE NotFound
\* The lookups call c may make next: a numeric key of a in a map b keyed
\* by interface values.
Lookups(c) ==
    IF pc[c] = "loop" /\ stack[c][1].op = "map" /\ IsMapping(stack[c][1].b.v)
       /\ stack[c][1].b.v.kt = AnyT
    THEN {i \in stack[c][1].todo :
              IsNative(Unwrap(Entries(stack[c][1].a.v)[i].key))}
    ELSE {}

\* C14 (probe order): the lookup of a numeric key k yields the value under
\* k itself, or else the first hit among the signed kinds from the widest
\* down, then the unsigned kinds, then the floats, whatever the kind of k;
\* and the key it hit denotes the number of k.
C14_ProbeOrder ==
    \A c \in Calls :
        \A i \in Lookups(c) :
            LET f == stack[c][1]
                key == Entries(f.a.v)[i].key
            IN getMapValue(impl, f.b, ValueOf(key)) = InOrder(f.b.v, Unwrap(key))

\* {uint16(1): "a", uint8(1): "b"} against {int8(1): "a", uint8(1): "b"}
\* returned false: the lookup of uint16(1) came to uint8(1) first.
C14_UnsignedBeforeSigned ==
    \E c \in Calls :
        /\ Returned(c) /\ ~isEquivalent[c] /\ ~recovered[c]
        /\ argA[c] = AnyMapAt("miUU") /\ argB[c] = AnyMapAt("miSU")

\* Call c gets its comparator on this step.
Starts(c) == pc[c] = "call" /\ pc'[c] = "drillA"
SameOperands(c, d) == argA[c] = argA[d] /\ argB[c] = argB[d]

Swapped(c, d) == argA[d] = argB[c] /\ argB[d] = argA[c]

\* C16 (symmetry): IsEquivalent(a, b) and IsEquivalent(b, a) return the
\* same result, whatever a and b are.
C16_Symmetric ==
    \A c, d \in Calls :
        (Returned(c) /\ Returned(d) /\ Swapped(c, d))
        => isEquivalent[c] = isEquivalent[d]

\* IsEquivalent([]int{}, "") returned true and IsEquivalent("", []int{})
\* returned false.
C16_EmptySliceAgainstText ==
    \E c, d \in Calls :
        /\ Returned(c) /\ Returned(d) /\ Swapped(c, d)
        /\ argA[c] = SliceV("[]int", "zerobase", 0) /\ argB[c] = Text(<<>>)
        /\ isEquivalent[c] /\ ~isEquivalent[d] /\ ~recovered[d]

\* A sequence whose elements, a pointer or interface followed, have no
\* elements of their own.
Flat(v) ==
    /\ IsSequence(v)
    /\ \A i \in 1..Len(Elements(v)) :
           LET e == Target(Unwrap(Elements(v)[i]))
           IN ~IsContainer(e) /\ e.k \notin {"Ptr", "Interface"}

\* C17 (no false positive from shared references): two sequences without a
\* cycle are equivalent only if their elements, the pointers followed, are
\* equivalent one by one, also when a pointer occurs twice on a side.
C17_NoFalsePositive ==
    \A c \in Calls :
        (/\ Returned(c) /\ isEquivalent[c]
         /\ Flat(argA[c]) /\ IsSequence(argB[c])
         /\ ~HasCycle(argA[c], {}) /\ ~HasCycle(argB[c], {}))
        => ElementsEquivalent(argA[c], argB[c])

\* IsEquivalent([]int{1, 2}, []*int{&x, &x}) with x = 1 returned true.
C17_RepeatedPointerAccepted ==
    \E c \in Calls :
        /\ Returned(c) /\ isEquivalent[c]
        /\ argA[c] = SliceV("[]int", "i12", 2)
        /\ argB[c] = SliceV("[]*int", "pp", 2)

IsText(v) == v.k = "String"

\* C18 (sequences and text): a sequence that is not empty is not equivalent
\* to a string, in either order.
C18_SequenceNotText ==
    \A c \in Calls :
        (/\ Returned(c)
         /\ \/ IsSequence(argA[c]) /\ ~IsEmpty(argA[c]) /\ IsText(argB[c])
            \/ IsText(argA[c]) /\ IsSequence(argB[c]) /\ ~IsEmpty(argB[c]))
        => ~isEquivalent[c]

\* IsEquivalent([]byte{97}, "a") returned true.
C18_BytesAcceptedAsText ==
    \E c \in Calls :
        /\ Returned(c) /\ isEquivalent[c]
        /\ argA[c] = SliceV("[]uint8", "b97", 1) /\ argB[c] = Text(Ta)

\* The entry of the map w that the keyed lookup of key comes to, 0 if none.
HitEntry(w, key) ==
    LET aKey == Unwrap(key)
        probes == KeyProbes(impl, ValueOf(aKey))
        hits == {i \in 1..Len(probes) :
                    probes[i].try /\ IsValid(MapIndex(ValueOf(w), probes[i].key))}
        found == probes[Min(hits)].key.v
    IN IF hits = {} THEN 0
       ELSE CHOOSE j \in 1..Len(Entries(w)) :
                KeyEq(Unwrap(Entries(w)[j].key), found)
\* The keys of v whose lookup in w comes to entry j of w.
Matching(v, w, j) ==
    {i \in 1..Len(Entries(v)) : HitEntry(w, Entries(v)[i].key) = j}

\* C19 (both key sets): when two maps keyed by interface values are
\* equivalent, every entry of b is the match of exactly one key of a.
C19_BothKeySets ==
    \A c \in Calls :
        (/\ Returned(c) /\ isEquivalent[c]
         /\ IsMapping(argA[c]) /\ IsMapping(argB[c])
         /\ argA[c].kt = AnyT /\ argB[c].kt = AnyT)
        => \A j \in 1..Len(Entries(argB[c])) :
               Cardinality(Matching(argA[c], argB[c], j)) = 1

\* {int8(1): "x", int16(1): "x"} against {1: "x", "a": "b"} returned true.
C19_TwoKeysOneEntry ==
    \E c \in Calls :
        /\ Returned(c) /\ isEquivalent[c]
        /\ argA[c] = AnyMapAt("miTwo") /\ argB[c] = AnyMapAt("miOne")
        /\ Matching(argA[c], argB[c], 1) = {1, 2}
        /\ Matching(argA[c], argB[c], 2) = {}

====
